---- MODULE Spec2Model ----
(***************************************************************************)
(* A model of cpp-match (include/match.hpp and the zip_match extension):   *)
(* Result<T,E> = std::variant<T,E>, Error<Ts...>, match / flat_visit, the  *)
(* expect macro, the Error widening constructors, default_expect,          *)
(* map_error, the successes range adaptor and zip_match.                   *)
(*                                                                         *)
(* C++ types are records [k, n, ts]; C++ values are records                *)
(* [ty, index, held, v]: a leaf holds the number v, a std::variant holds   *)
(* its active index (0-based, as variant::index()) and the held            *)
(* alternative, an Error holds its member `value` (a std::variant).        *)
(***************************************************************************)
EXTENDS Integers, Sequences, FiniteSets, TLC

\* ------------------------------------------------------------------ bounds
\* Leaf values are 1..MaxVal.
MaxVal == 2
\* The most expect statements of one enclosing function.
MaxArgs == 2
\* The most Results passed to one zip_match.
MaxZip == 3
\* The most elements of a range given to successes.
MaxLen == 4
\* The nesting depth of the generated Error / std::variant towers.
MaxDepth == 2

\* ------------------------------------------------------------------- types
Leaf(name) == [k |-> "leaf", n |-> name, ts |-> <<>>]
\* template <typename... Ts> class Error
ErrorT(ts) == [k |-> "Error", n |-> "", ts |-> ts]
\* std::variant<Ts...>
VariantT(ts) == [k |-> "variant", n |-> "", ts |-> ts]
\* using Result = std::variant<T, E>
Result(T, E) == VariantT(<<T, E>>)

IntT == Leaf("int")
FloatT == Leaf("float")
DoubleT == Leaf("double")
StringT == Leaf("std::string")
MonostateT == Leaf("std::monostate")
NullErrorT == Leaf("NullError")
Err3T == Leaf("Err3")
CoordinateT == Leaf("Coordinate")
\* The type of "no value": a variable that holds nothing yet.
Void == Leaf("void")

success_type_t(R) == R.ts[1]
error_type_t(R) == R.ts[2]

\* std::is_same<A, B>
is_same(A, B) == A = B

\* is_one_of<T, Ts...> : std::disjunction<std::is_same<T, Ts>...>
RECURSIVE is_one_of_from(_, _, _)
is_one_of_from(T, ts, i) ==
    IF i > Len(ts) THEN FALSE
    ELSE is_same(T, ts[i]) \/ is_one_of_from(T, ts, i + 1)

is_one_of(T, ts) == is_one_of_from(T, ts, 1)

is_variant_v(T) == T.k = "variant"
is_error_v(T) == T.k = "Error"

\* ------------------------------------------------------------------ values
NoValue == [ty |-> Void, index |-> 0, held |-> <<>>, v |-> 0]
LeafVal(T, x) == [ty |-> T, index |-> 0, held |-> <<>>, v |-> x]
\* std::variant<Ts...>(std::in_place_index<i>, h); i < 0 is variant_npos.
InPlace(T, i, h) ==
    IF i < 0 THEN [ty |-> T, index |-> -1, held |-> <<>>, v |-> 0]
    ELSE [ty |-> T, index |-> i, held |-> <<h>>, v |-> 0]
\* An Error<Ts...> whose member `value` is w.
MkError(T, w) == [ty |-> T, index |-> 0, held |-> <<w>>, v |-> 0]

\* variant::index()
index(r) == r.index
\* std::get<I>(r) of a variant holding alternative I.
get(r) == r.held[1]
\* std::get<0>(r) / std::get<1>(r): std::bad_variant_access is NoValue here.
get0(r) == IF index(r) = 0 THEN get(r) ELSE NoValue
get1(r) == IF index(r) = 1 THEN get(r) ELSE NoValue

\* The value at the end of the active path of v: what is left when every
\* Error and std::variant around it is taken off.
RECURSIVE Innermost(_)
Innermost(v) == IF v.ty.k = "leaf" \/ v.held = <<>> THEN v ELSE Innermost(v.held[1])

RECURSIVE ValuesOf(_)
ValuesOf(T) ==
    IF T.k = "leaf" THEN {LeafVal(T, x) : x \in 1..MaxVal}
    ELSE IF T.k = "variant"
    THEN UNION {{InPlace(T, i, h) : h \in ValuesOf(T.ts[i + 1])} : i \in 0..(Len(T.ts) - 1)}
    ELSE {MkError(T, w) : w \in ValuesOf(VariantT(T.ts))}

\* ------------------------------------------- construction and conversion
\* enable_if of the Error converting constructors:
\* (is_one_of<Us, Ts...>::value && ...)
RECURSIVE convert_enabled_from(_, _, _)
convert_enabled_from(us, ts, i) ==
    IF i > Len(us) THEN TRUE
    ELSE is_one_of(us[i], ts) /\ convert_enabled_from(us, ts, i + 1)

\* A slip in the enable_if: the fold is over || instead of &&.
convert_enabled_any(us, ts) == \E i \in 1..Len(us) : is_one_of(us[i], ts)

convert_enabled(us, ts) == convert_enabled_from(us, ts, 1)

\* Whether a value of type src converts implicitly to dst, and the alternative
\* the converting constructor of std::variant<ts...> selects for it (0-based;
\* -1 when the construction is ill-formed: no candidate, or an ambiguous one).
\* An alternative of exactly the source's type beats every user-defined
\* conversion; two candidates of the same rank are ambiguous.
RECURSIVE Constructible(_, _), SelectAlt(_, _)
Constructible(dst, src) ==
    \/ dst = src
    \/ /\ is_error_v(dst)
       /\ \/ is_one_of(src, dst.ts)
          \/ is_error_v(src) /\ convert_enabled(src.ts, dst.ts)
    \/ is_variant_v(dst) /\ SelectAlt(dst.ts, src) >= 0

SelectAlt(ts, src) ==
    LET exact == {i \in 1..Len(ts) : ts[i] = src}
        conv == {i \in 1..Len(ts) : Constructible(ts[i], src)}
    IN  IF exact # {}
        THEN IF Cardinality(exact) = 1 THEN (CHOOSE i \in exact : TRUE) - 1 ELSE -1
        ELSE IF Cardinality(conv) = 1 THEN (CHOOSE i \in conv : TRUE) - 1 ELSE -1

\* The value a T-typed object gets when it is initialised from x:
\*   the same type: a copy / move of x;
\*   Error(T &&t) : value(std::forward<T>(t));
\*   Error(const Error<Us...> &other) / Error(Error<Us...> &&other);
\*   std::variant<Ts...>(x): the converting constructor.
RECURSIVE ConvertTo(_, _), VariantFrom(_, _), ErrorConvert(_, _)
ConvertTo(dst, x) ==
    IF dst = x.ty THEN x
    ELSE IF is_error_v(dst) /\ is_one_of(x.ty, dst.ts)
    THEN MkError(dst, VariantFrom(VariantT(dst.ts), x))
    ELSE IF is_error_v(dst) /\ is_error_v(x.ty) /\ convert_enabled(x.ty.ts, dst.ts)
    THEN ErrorConvert(dst.ts, x)
    ELSE IF is_variant_v(dst) THEN VariantFrom(dst, x)
    ELSE NoValue

VariantFrom(VT, x) ==
    LET i == SelectAlt(VT.ts, x.ty)
    IN  IF i < 0 THEN InPlace(VT, -1, NoValue)
        ELSE InPlace(VT, i, ConvertTo(VT.ts[i + 1], x))

\* A slip in the converting constructors: the source's index is kept instead of
\* the alternative being selected again by its type.
ErrorConvertKeepsIndex(ts, other) ==
    MkError(ErrorT(ts), InPlace(VariantT(ts), index(get(other)), get(get(other))))

\* Error<Ts...>(other) for an Error<Us...> other, copy or move:
\*   std::visit([this](auto &&arg) { value = std::variant<Ts...>(arg); }, other.value);
ErrorConvert(ts, other) ==
    MkError(ErrorT(ts), VariantFrom(VariantT(ts), get(get(other))))

\* A slip in the model of a move: a moved-from std::variant is taken to hold
\* nothing any more.
MovedFromValueless(x) ==
    IF is_variant_v(x.ty) THEN {InPlace(x.ty, -1, NoValue)} ELSE {x}

\* What a moved-from object may hold afterwards: a std::string is left in a
\* valid but unspecified state (0 is the empty string), the other leaves are
\* trivially copied and keep their value.
RECURSIVE MovedFrom(_)
MovedFrom(x) ==
    IF x.ty.k = "leaf"
    THEN IF x.ty = StringT THEN {LeafVal(x.ty, n) : n \in 0..MaxVal} ELSE {x}
    ELSE IF x.held = <<>> THEN {x}
    ELSE {[x EXCEPT !.held = <<h>>] : h \in MovedFrom(x.held[1])}

\* ----------------------------------------------------- is_err / is_ok
\* A slip in is_err: the index is tested the wrong way round.
is_err_negated(result) == index(result) = 0

\* constexpr bool is_err(const Result<T, E> &result), at run time:
\*   return result.index();
is_err(result) == index(result) # 0

\* constexpr bool is_ok(const Result<T, E> &result): return !is_err(result);
is_ok(result) == ~is_err(result)

\* std::holds_alternative<T>(v); T must occur exactly once in the alternatives.
holds_alternative(T, v) == index(v) >= 0 /\ v.ty.ts[index(v) + 1] = T

\* is_err in a constant evaluation:
\*   if consteval { return std::holds_alternative<E>(result); }
is_err_constant(result) == holds_alternative(error_type_t(result.ty), result)

is_ok_constant(result) == ~is_err_constant(result)

\* is_err<T, E> is instantiated with its holds_alternative<E>, which is
\* ill-formed when T and E are one type.
IsErrCompiles(RT) == success_type_t(RT) # error_type_t(RT)

\* ------------------------------------------------------------- match
\* A handler is one lambda of the caller: [id, param, generic]. A generic
\* handler is [](const auto &) {...}; any other accepts exactly `param`.
\* The value it returns tells the handler and its argument apart.
Invoke(h, arg) == LeafVal(IntT, 10 * h.id + arg.v)

\* The rank of the implicit conversion sequence that binds an argument of
\* type T to a parameter of type P (the smaller the better, 0: none exists):
\* identity, floating-point promotion, an arithmetic conversion, a
\* user-defined conversion (the constructors of Error and of std::variant).
Arithmetic == {IntT, FloatT, DoubleT}

ConversionRank(P, T) ==
    IF P = T THEN 1
    ELSE IF T = FloatT /\ P = DoubleT THEN 3
    ELSE IF T \in Arithmetic /\ P \in Arithmetic THEN 4
    ELSE IF (is_error_v(P) \/ is_variant_v(P)) /\ Constructible(P, T) THEN 5
    ELSE 0

\* A slip in the ranking: a generic handler is the last resort, taken only
\* when no other handler is viable.
HandlerRankGenericLast(h, T) == IF h.generic THEN 6 ELSE ConversionRank(h.param, T)

\* The rank of handler h for an argument of type T: a generic handler is an
\* identity match that loses to a handler of exactly T only.
HandlerRank(h, T) == IF h.generic THEN 2 ELSE ConversionRank(h.param, T)

\* A slip in the resolution: a generic handler is taken whenever there is one.
overloaded_generic_first(vis, T) ==
    LET gen == {i \in 1..Len(vis) : vis[i].generic}
        viable == {i \in 1..Len(vis) : HandlerRank(vis[i], T) > 0}
        best == {i \in viable : \A j \in viable : HandlerRank(vis[i], T) <= HandlerRank(vis[j], T)}
    IN  IF gen # {} THEN CHOOSE i \in gen : TRUE
        ELSE IF Cardinality(best) = 1 THEN CHOOSE i \in best : TRUE ELSE 0

\* overloaded{lambdas...}(x) for a leaf x of type T: overload resolution among
\* the call operators. The handler of exactly T wins, then the generic one,
\* then the handlers T converts to; the position (0 when the call is
\* ill-formed: no viable handler, or two of the best rank) of the handler
\* called.
overloaded(vis, T) ==
    LET viable == {i \in 1..Len(vis) : HandlerRank(vis[i], T) > 0}
        best == {i \in viable : \A j \in viable : HandlerRank(vis[i], T) <= HandlerRank(vis[j], T)}
    IN  IF Cardinality(best) = 1 THEN CHOOSE i \in best : TRUE ELSE 0

\* A slip in flat_visit: the is_error_v branch is missing, an Error is handed
\* to the visitor as it is.
RECURSIVE flat_visit(_, _)
flat_visit_stops_at_error(value, vis) ==
    IF is_variant_v(value.ty) THEN flat_visit(get(value), vis)
    ELSE LET h == overloaded(vis, value.ty)
         IN  [calls |-> <<[h |-> h, arg |-> value]>>,
              ret |-> IF h = 0 THEN NoValue ELSE Invoke(vis[h], value)]

\* A slip in flat_visit: the visitor is applied twice to the leaf.
flat_visit_calls_twice(value, vis) ==
    IF is_error_v(value.ty) \/ is_variant_v(value.ty)
    THEN flat_visit(get(value), vis)
    ELSE LET h == overloaded(vis, value.ty)
         IN  [calls |-> <<[h |-> h, arg |-> value], [h |-> h, arg |-> value]>>,
              ret |-> IF h = 0 THEN NoValue ELSE Invoke(vis[h], value)]

\* cppmatch_detail::flat_visit(value, vis): the visitor calls made, in order,
\* and the value returned.
flat_visit(value, vis) ==
    IF is_error_v(value.ty) THEN flat_visit(get(value), vis)
    ELSE IF is_variant_v(value.ty) THEN flat_visit(get(value), vis)
    ELSE LET h == overloaded(vis, value.ty)
         IN  [calls |-> <<[h |-> h, arg |-> value]>>,
              ret |-> IF h = 0 THEN NoValue ELSE Invoke(vis[h], value)]

\* match(v, lambdas...)
match(v, lambdas) == flat_visit(v, lambdas)

\* The leaf types flat_visit can reach in a value of type T: match compiles
\* when the handlers accept every one of them.
RECURSIVE LeafTypes(_)
LeafTypes(T) ==
    IF T.k = "leaf" THEN {T}
    ELSE UNION {LeafTypes(T.ts[i]) : i \in 1..Len(T.ts)}

MatchCompiles(T, lambdas) == \A L \in LeafTypes(T) : overloaded(lambdas, L) # 0

\* The handlers of a match: one per type of `types`, in that order.
HandlersFor(types) ==
    [i \in 1..Len(types) |-> [id |-> i, param |-> types[i], generic |-> FALSE]]

\* [](const auto &) {...}
CatchAll(i) == [id |-> i, param |-> Void, generic |-> TRUE]

\* The parameter object a handler (const P &) gets for the argument x: x
\* itself, or the temporary P the implicit conversion makes of it.
BindParam(P, x) ==
    IF P = x.ty THEN x
    ELSE IF P \in Arithmetic /\ x.ty \in Arithmetic THEN LeafVal(P, x.v)
    ELSE ConvertTo(P, x)

\* match(v, handlers of the success leaves..., [](const auto &e) { return
\* match(e, handlers of the error leaves...); }): the formulation of one flat
\* list of per-leaf handlers as a match in a match. The handler calls made
\* (the inner ones) and the value returned.
nested_match(v, flat) ==
    LET S == LeafTypes(success_type_t(v.ty))
        E == LeafTypes(error_type_t(v.ty))
        outer == SelectSeq(flat, LAMBDA h : h.param \in S) \o <<CatchAll(0)>>
        inner == SelectSeq(flat, LAMBDA h : h.param \in E)
        o == flat_visit(v, outer)
        h == o.calls[1].h
    IN  IF h # 0 /\ outer[h].generic
        THEN LET i == match(o.calls[1].arg, inner)
                 j == i.calls[1].h
             IN  [calls |-> <<[h |-> IF j = 0 THEN 0 ELSE inner[j].id, arg |-> i.calls[1].arg]>>,
                  ret |-> i.ret]
        ELSE [calls |-> <<[h |-> IF h = 0 THEN 0 ELSE outer[h].id, arg |-> o.calls[1].arg]>>,
              ret |-> o.ret]

\* The nested formulation compiles: the outer call is well-formed for every
\* leaf, and so is the inner match for every leaf the catch-all is called with.
NestedCompiles(T, flat) ==
    LET S == LeafTypes(success_type_t(T))
        E == LeafTypes(error_type_t(T))
        outer == SelectSeq(flat, LAMBDA h : h.param \in S) \o <<CatchAll(0)>>
        inner == SelectSeq(flat, LAMBDA h : h.param \in E)
    IN  \A L \in LeafTypes(T) :
            /\ overloaded(outer, L) # 0
            /\ outer[overloaded(outer, L)].generic => overloaded(inner, L) # 0

\* ------------------------------------------ default_expect / map_error
\* A slip in default_expect: the two arms of the conditional are exchanged.
default_expect_swapped(result, default_value) ==
    IF holds_alternative(success_type_t(result.ty), result) THEN default_value
    ELSE get(result)

\* default_expect(result, default_value):
\*   return std::holds_alternative<T>(result) ? std::get<T>(result) : default_value;
default_expect(result, default_value) ==
    IF holds_alternative(success_type_t(result.ty), result) THEN get(result)
    ELSE default_value

\* The mapping functions f of map_error: [id, ret], ret the type E2 of f's
\* values; f(e) tells f and the error it got apart.
MapFunctions == {[id |-> 1, ret |-> StringT], [id |-> 2, ret |-> IntT]}

ApplyMap(fn, e) == LeafVal(fn.ret, 10 * fn.id + Innermost(e).v)

\* The two handlers map_error gives to match:
\*   [](const T &val) {...}, [&](const E1 &err) {...}
MapHandlers(RT) == HandlersFor(<<success_type_t(RT), error_type_t(RT)>>)

\* map_error(result, f): match hands the leaf of the active path to the one of
\* the two handlers overload resolution selects for it. The calls of f made
\* and the Result<T, E2> returned.
map_error(result, fn) ==
    LET T == success_type_t(result.ty)
        E1 == error_type_t(result.ty)
        Out == Result(T, fn.ret)
        c == match(result, MapHandlers(result.ty)).calls[1]
        err == BindParam(E1, c.arg)
    IN  IF c.h = 1
        THEN [calls |-> <<>>, ret |-> InPlace(Out, 0, BindParam(T, c.arg))]
        ELSE [calls |-> <<[h |-> fn.id, arg |-> err]>>, ret |-> InPlace(Out, 1, ApplyMap(fn, err))]

\* map_error compiles: its match does.
MapErrorCompiles(RT) == MatchCompiles(RT, MapHandlers(RT))

\* ------------------------------------------------------------- state
VARIABLES
    op,       \* the library operation applied last ("none" at the start)
    src,      \* the value r was constructed from / the Error before a conversion
    r,        \* the Result or Error at hand
    target,   \* the target type of the last Error conversion
    lambdas,  \* what the last operation was given besides r: the handlers of a match,
              \* the function of a map_error, the default of a default_expect
    flag,     \* what is_ok / is_err returned
    out,      \* the value the last operation returned
    calls,    \* the handler calls the last operation made, in order
    rs,       \* the Results the operand expressions evaluate to
    env,      \* expect: the return type of the enclosing function
    pc,       \* expect: the statement of the enclosing function to run next
    locals,   \* expect: the values the expect expressions evaluated to so far
    evals,    \* expect: how often each operand expression was evaluated
    f         \* zip_match: the combining function

vars == <<op, src, r, target, lambdas, flag, out, calls, rs, env, pc, locals, evals, f>>

\* ------------------------------------------------- the types exercised
\* Error / std::variant towers of depth d on the error and the success side.
RECURSIVE ErrTower(_), SuccTower(_)
ErrTower(d) ==
    IF d = 0 THEN StringT
    ELSE ErrorT(<<IntT, VariantT(<<FloatT, ErrTower(d - 1)>>)>>)

SuccTower(d) ==
    IF d = 0 THEN DoubleT
    ELSE VariantT(<<CoordinateT, ErrorT(<<MonostateT, SuccTower(d - 1)>>)>>)

\* Result<int, std::string>, Result<int, Error<std::string>>,
\* Result<double, Error<int, float, std::string>> of the tests, and the towers.
CoreResultTypes ==
    {Result(IntT, StringT), Result(IntT, ErrorT(<<StringT>>)),
     Result(DoubleT, ErrorT(<<IntT, FloatT, StringT>>)),
     Result(VariantT(<<IntT, FloatT>>), DoubleT)}
    \cup {Result(SuccTower(d), ErrTower(d)) : d \in 1..MaxDepth}

\* The Results given to map_error and default_expect: those of plain
\* alternatives, of an Error alternative, of a std::variant alternative.
PlainResultTypes ==
    {Result(IntT, StringT), Result(IntT, ErrorT(<<StringT>>)),
     Result(DoubleT, ErrorT(<<IntT, FloatT, StringT>>)),
     Result(VariantT(<<IntT, FloatT>>), DoubleT)}

\* A Result whose two alternatives have one type: built in place only.
SameTypeResult == Result(IntT, IntT)

\* The type lists of the Errors converted: the lists without repetition over
\* int, float, std::string (Error<int, float> -> Error<int, float, std::string>).
ErrorLists ==
    LET base == {IntT, FloatT, StringT}
    IN  {s \in UNION {[1..n -> base] : n \in 1..3} :
            \A i, j \in DOMAIN s : s[i] = s[j] => i = j}

AllLeaves == <<IntT, FloatT, DoubleT, StringT, MonostateT, CoordinateT>>

\* The handler lists tried on a value of type T: one handler per leaf type
\* (with handlers to spare, as the long long handler of the test), the same in
\* the opposite order, a catch-all alone, the handler of one leaf type with a
\* catch-all.
HandlerLists(T) ==
    LET mine == SelectSeq(AllLeaves, LAMBDA L : L \in LeafTypes(T))
        rev == [i \in 1..Len(mine) |-> mine[Len(mine) + 1 - i]]
    IN  IF mine = <<>> THEN {}
        ELSE {HandlersFor(AllLeaves), HandlersFor(rev), <<CatchAll(1)>>}
             \cup {<<[id |-> 1, param |-> mine[i], generic |-> FALSE], CatchAll(2)>> :
                      i \in 1..Len(mine)}

\* ============================================================ Spec
\* A caller that builds Results and Errors and applies is_err, is_ok, match
\* and the Error conversions to them, in any order.
IdleExpect == rs = <<>> /\ env = Void /\ pc = 0 /\ locals = <<>> /\ evals = <<>> /\ f = 0

Init ==
    /\ op = "none" /\ src = NoValue /\ r = NoValue /\ target = Void
    /\ lambdas = <<>> /\ flag = FALSE /\ out = NoValue /\ calls = <<>>
    /\ IdleExpect

\* What every operation leaves behind of the operation before it.
Fresh(name) ==
    /\ op' = name
    /\ UNCHANGED <<rs, env, pc, locals, evals, f>>

\* Result<T, E> r = x;  (the converting constructor of std::variant). A value is
\* built once: the three constructions start from nothing.
Construct(RT, x) ==
    /\ r = NoValue
    /\ SelectAlt(RT.ts, x.ty) >= 0
    /\ r' = VariantFrom(RT, x)
    /\ src' = x
    /\ target' = Void /\ lambdas' = <<>> /\ flag' = FALSE /\ out' = NoValue /\ calls' = <<>>
    /\ Fresh("construct")

\* Result<T, E>(std::in_place_index_t<i>{}, x)
ConstructInPlace(RT, i, x) ==
    /\ r = NoValue
    /\ r' = InPlace(RT, i, x)
    /\ src' = x
    /\ target' = Void /\ lambdas' = <<>> /\ flag' = FALSE /\ out' = NoValue /\ calls' = <<>>
    /\ Fresh("in_place")

\* Error<Ts...> e = x;  (Error(T &&t))
ConstructError(ts, x) ==
    /\ r = NoValue
    /\ is_one_of(x.ty, ts)
    /\ r' = ConvertTo(ErrorT(ts), x)
    /\ src' = x
    /\ target' = Void /\ lambdas' = <<>> /\ flag' = FALSE /\ out' = NoValue /\ calls' = <<>>
    /\ Fresh("error")

IsResult(x) == is_variant_v(x.ty) /\ Len(x.ty.ts) = 2

\* is_err(r), evaluated at run time or in a constant expression.
IsErr(constant) ==
    /\ IsResult(r) /\ IsErrCompiles(r.ty)
    /\ flag' = IF constant THEN is_err_constant(r) ELSE is_err(r)
    /\ out' = NoValue /\ calls' = <<>> /\ lambdas' = <<>> /\ target' = Void
    /\ UNCHANGED <<r, src>>
    /\ Fresh("is_err")

\* is_ok(r)
IsOk(constant) ==
    /\ IsResult(r) /\ IsErrCompiles(r.ty)
    /\ flag' = IF constant THEN is_ok_constant(r) ELSE is_ok(r)
    /\ out' = NoValue /\ calls' = <<>> /\ lambdas' = <<>> /\ target' = Void
    /\ UNCHANGED <<r, src>>
    /\ Fresh("is_ok")

\* match(r, ls...)
Match(ls) ==
    /\ r # NoValue
    /\ MatchCompiles(r.ty, ls)
    /\ LET m == match(r, ls)
       IN  calls' = m.calls /\ out' = m.ret
    /\ lambdas' = ls
    /\ flag' = FALSE /\ target' = Void
    /\ UNCHANGED <<r, src>>
    /\ Fresh("match")

\* Error<Ts...> e_large = e_small;  (Error(const Error<Us...> &other))
ConvertCopy(ts) ==
    /\ is_error_v(r.ty)
    /\ convert_enabled(r.ty.ts, ts)
    /\ out' = ErrorConvert(ts, r)
    /\ src' = r
    /\ target' = ErrorT(ts)
    /\ flag' = FALSE /\ calls' = <<>> /\ lambdas' = <<>>
    /\ UNCHANGED r
    /\ Fresh("convert_copy")

\* Error<Ts...> e_large = std::move(e_small);  (Error(Error<Us...> &&other))
ConvertMove(ts) ==
    /\ is_error_v(r.ty)
    /\ convert_enabled(r.ty.ts, ts)
    /\ out' = ErrorConvert(ts, r)
    /\ src' = r
    /\ target' = ErrorT(ts)
    /\ flag' = FALSE /\ calls' = <<>> /\ lambdas' = <<>>
    /\ r' \in MovedFrom(r)
    /\ Fresh("convert_move")

\* The same initialisation where the enable_if removes both converting
\* constructors: the program is rejected, nothing is built.
ConvertRejected(ts) ==
    /\ is_error_v(r.ty)
    /\ ~convert_enabled(r.ty.ts, ts)
    /\ out' = NoValue
    /\ src' = r
    /\ target' = ErrorT(ts)
    /\ flag' = FALSE /\ calls' = <<>> /\ lambdas' = <<>>
    /\ UNCHANGED r
    /\ Fresh("convert_rejected")

\* auto result2 = match(r, handlers..., [](const auto &e) { return match(e,
\* handlers...); });  ls is the flat list the handlers are taken from.
NestedMatch(ls) ==
    /\ IsResult(r)
    /\ \A i \in 1..Len(ls) : ~ls[i].generic
    /\ MatchCompiles(r.ty, ls) /\ NestedCompiles(r.ty, ls)
    /\ LET m == nested_match(r, ls)
       IN  calls' = m.calls /\ out' = m.ret
    /\ lambdas' = ls
    /\ flag' = FALSE /\ target' = Void
    /\ UNCHANGED <<r, src>>
    /\ Fresh("nested_match")

\* T x = default_expect(r, d); lambdas is <<d>>.
DefaultExpect(d) ==
    /\ IsResult(r) /\ r.ty \in PlainResultTypes /\ IsErrCompiles(r.ty)
    /\ out' = default_expect(r, d)
    /\ lambdas' = <<d>>
    /\ calls' = <<>> /\ flag' = FALSE /\ target' = Void
    /\ UNCHANGED <<r, src>>
    /\ Fresh("default_expect")

\* auto r2 = map_error(r, fn); lambdas is <<fn>>.
MapError(fn) ==
    /\ IsResult(r) /\ r.ty \in PlainResultTypes /\ MapErrorCompiles(r.ty)
    /\ LET m == map_error(r, fn)
       IN  calls' = m.calls /\ out' = m.ret
    /\ lambdas' = <<fn>>
    /\ flag' = FALSE /\ target' = Void
    /\ UNCHANGED <<r, src>>
    /\ Fresh("map_error")

\* The values a Result of type RT is initialised from: its alternatives', and
\* the members' of an Error alternative (return NullError{};).
Sources(RT) ==
    LET members(T) == IF is_error_v(T) THEN {T.ts[i] : i \in 1..Len(T.ts)} ELSE {}
    IN  UNION {ValuesOf(T) : T \in {RT.ts[1], RT.ts[2]} \cup members(RT.ts[1]) \cup members(RT.ts[2])}

Next ==
    \/ \E RT \in CoreResultTypes : \E x \in Sources(RT) : Construct(RT, x)
    \/ \E i \in 0..1 : \E x \in ValuesOf(IntT) : ConstructInPlace(SameTypeResult, i, x)
    \/ \E ts \in ErrorLists : \E x \in UNION {ValuesOf(ts[i]) : i \in 1..Len(ts)} : ConstructError(ts, x)
    \/ \E constant \in BOOLEAN : IsErr(constant)
    \/ \E constant \in BOOLEAN : IsOk(constant)
    \/ \E ls \in HandlerLists(r.ty) : Match(ls)
    \/ \E ls \in HandlerLists(r.ty) : NestedMatch(ls)
    \/ \E d \in (IF IsResult(r) THEN ValuesOf(success_type_t(r.ty)) ELSE {}) : DefaultExpect(d)
    \/ \E fn \in MapFunctions : MapError(fn)
    \/ \E ts \in ErrorLists : ConvertCopy(ts)
    \/ \E ts \in ErrorLists : ConvertMove(ts)
    \/ \E ts \in ErrorLists : ConvertRejected(ts)

Spec == Init /\ [][Next]_vars

\* ====================================================== SpecExpect
\* An enclosing function  Result<T', E'> fn() { x1 = expect(e1); ...;
\* xn = expect(en); return T'{...}; }  where ei evaluates to rs[i].
\* pc is the statement at hand: the i-th expect, Len(rs) + 1 for the closing
\* return statement; op = "return" once the function has returned, pc then
\* being the statement that returned.

\* The operand types of the tests and examples: Result<int, std::string>,
\* Result<double, Error<NullError, Err3>>.
InnerTypes == {Result(IntT, StringT), Result(DoubleT, ErrorT(<<NullErrorT, Err3T>>))}

\* The error types of the enclosing function: the operand's own, and the
\* Errors it converts to.
WideLists ==
    {<<StringT>>, <<IntT, StringT>>, <<Err3T, NullErrorT>>,
     <<NullErrorT, StringT, MonostateT, Err3T>>}

Widen(E) == {E} \cup {ErrorT(ts) : ts \in {w \in WideLists : Constructible(ErrorT(w), E)}}

\* The enclosing function compiles: both return statements are well-formed.
ExpectCompiles(inner, RT) ==
    /\ SelectAlt(RT.ts, error_type_t(inner)) >= 0
    /\ SelectAlt(RT.ts, success_type_t(RT)) >= 0

Enclosing(inner) ==
    {RT \in {Result(T, E) : T \in {IntT, StringT, CoordinateT}, E \in Widen(error_type_t(inner))} :
        ExpectCompiles(inner, RT)}

InitExpect ==
    /\ op = "call" /\ src = NoValue /\ r = NoValue /\ target = Void
    /\ lambdas = <<>> /\ flag = FALSE /\ out = NoValue /\ calls = <<>>
    /\ f = 0
    /\ \E inner \in {RT \in InnerTypes : IsErrCompiles(RT)} :
          /\ \E n \in 1..MaxArgs : rs \in [1..n -> ValuesOf(inner)]
          /\ env \in Enclosing(inner)
    /\ pc = 1
    /\ locals = <<>>
    /\ evals = [i \in 1..Len(rs) |-> 0]

\* A slip in the macro: the failure is not returned, the statement expression
\* goes on as if it had unwrapped a value.
ExpectFallsThrough ==
    /\ op # "return" /\ pc \in 1..Len(rs)
    /\ evals' = [evals EXCEPT ![pc] = @ + 1]
    /\ src' = rs[pc]
    /\ locals' = Append(locals, get(rs[pc]))
    /\ pc' = pc + 1 /\ op' = "expect"
    /\ UNCHANGED <<rs, out, r, target, lambdas, flag, calls, env, f>>

\* A slip in the macro: the value is unwrapped with the wrong index.
ExpectYieldsOther ==
    /\ op # "return" /\ pc \in 1..Len(rs)
    /\ evals' = [evals EXCEPT ![pc] = @ + 1]
    /\ src' = rs[pc]
    /\ IF is_err(rs[pc])
       THEN /\ out' = VariantFrom(env, get1(rs[pc]))
            /\ op' = "return"
            /\ UNCHANGED <<pc, locals>>
       ELSE /\ locals' = Append(locals, get1(rs[pc]))
            /\ pc' = pc + 1 /\ op' = "expect"
            /\ UNCHANGED out
    /\ UNCHANGED <<rs, r, target, lambdas, flag, calls, env, f>>

\* A slip in the macro: expr is named where expr_ should be, the operand is
\* evaluated for the test and again for the std::get.
ExpectEvaluatesTwice ==
    /\ op # "return" /\ pc \in 1..Len(rs)
    /\ evals' = [evals EXCEPT ![pc] = @ + 2]
    /\ src' = rs[pc]
    /\ IF is_err(rs[pc])
       THEN /\ out' = VariantFrom(env, get1(rs[pc]))
            /\ op' = "return"
            /\ UNCHANGED <<pc, locals>>
       ELSE /\ locals' = Append(locals, get0(rs[pc]))
            /\ pc' = pc + 1 /\ op' = "expect"
            /\ UNCHANGED out
    /\ \E m \in MovedFrom(rs[pc]) : rs' = [rs EXCEPT ![pc] = m]
    /\ UNCHANGED <<r, target, lambdas, flag, calls, env, f>>

\* expect(expr):
\*   auto &&expr_ = (expr);
\*   if (cppmatch::is_err(expr_)) return std::get<1>(std::move(expr_));
\*   std::get<0>(std::move(expr_));
\* The operand is moved from on either path.
Expect ==
    /\ op # "return" /\ pc \in 1..Len(rs)
    /\ evals' = [evals EXCEPT ![pc] = @ + 1]
    /\ src' = rs[pc]
    /\ IF is_err(rs[pc])
       THEN /\ out' = VariantFrom(env, get1(rs[pc]))
            /\ op' = "return"
            /\ UNCHANGED <<pc, locals>>
       ELSE /\ locals' = Append(locals, get0(rs[pc]))
            /\ pc' = pc + 1 /\ op' = "expect"
            /\ UNCHANGED out
    /\ \E m \in MovedFrom(rs[pc]) : rs' = [rs EXCEPT ![pc] = m]
    /\ UNCHANGED <<r, target, lambdas, flag, calls, env, f>>

\* return value;  /  return Coordinate{latitude, longitude};
\* the closing return statement, of a T' made of the last unwrapped value.
NormalReturn ==
    /\ op # "return" /\ pc = Len(rs) + 1
    /\ out' = VariantFrom(env, LeafVal(success_type_t(env), locals[Len(locals)].v))
    /\ op' = "return"
    /\ UNCHANGED <<src, rs, pc, locals, evals, r, target, lambdas, flag, calls, env, f>>

NextExpect == Expect \/ NormalReturn

SpecExpect == InitExpect /\ [][NextExpect]_vars

\* ========================================================= SpecZip
\* zip_match(f, rs...) applied once to Results the caller holds.

\* all_same_v<Es...>: std::conjunction_v<std::is_same<Es, Es0>...>
RECURSIVE all_same_from(_, _)
all_same_from(es, i) ==
    IF i > Len(es) THEN TRUE
    ELSE is_same(es[i], es[1]) /\ all_same_from(es, i + 1)

all_same_v(es) == all_same_from(es, 1)

\* deduced_error_t<Es...>
deduced_error_t(es) == IF all_same_v(es) THEN es[1] ELSE VariantT(es)

\* The combining functions: [](int x, int y) { return x * 10 + y; } (the
\* order of its arguments shows in its result), [](int x, int y) { return
\* x + y; } of the tests, and [](int x, int y) -> void {}.
ZipFunctions ==
    {[name |-> "digits", void |-> FALSE], [name |-> "sum", void |-> FALSE],
     [name |-> "nothing", void |-> TRUE]}

RECURSIVE Digits(_), Sum(_)
Digits(args) ==
    IF args = <<>> THEN 0
    ELSE 10 * Digits(SubSeq(args, 1, Len(args) - 1)) + args[Len(args)].v

Sum(args) == IF args = <<>> THEN 0 ELSE args[1].v + Sum(Tail(args))

\* f(args...)
Apply(fn, args) ==
    IF fn.void THEN NoValue
    ELSE LeafVal(IntT, IF fn.name = "digits" THEN Digits(args) ELSE Sum(args))

\* pick_first_error_impl<I, SuccessTuple>(tup): the first argument whose type
\* is not the success type of its position.
RECURSIVE pick_first_error_impl(_, _, _)
pick_first_error_impl(i, SuccessTuple, tup) ==
    IF i <= Len(tup)
    THEN IF ~is_same(tup[i].ty, SuccessTuple[i]) THEN tup[i]
         ELSE pick_first_error_impl(i + 1, SuccessTuple, tup)
    ELSE NoValue

pick_first_error(SuccessTuple, args) == pick_first_error_impl(1, SuccessTuple, args)

\* A slip in zip_match_impl: f gets the arguments in the opposite order.
zip_match_impl_reversed(SuccessTuple, Return, fn, zs) ==
    LET args == [i \in 1..Len(zs) |-> get(zs[Len(zs) + 1 - i])]
    IN  [calls |-> <<[h |-> fn.name, arg |-> args]>>,
         ret |-> InPlace(Return, 0, Apply(fn, args))]

\* A slip in zip_match_impl: the is_void_v branch is missing, the (absent)
\* value of f is stored as it is.
zip_match_impl_no_void_branch(SuccessTuple, Return, fn, zs) ==
    LET args == [i \in 1..Len(zs) |-> get(zs[i])]
        allSuccess == \A i \in 1..Len(zs) : is_same(args[i].ty, SuccessTuple[i])
    IN  IF allSuccess
        THEN [calls |-> <<[h |-> fn.name, arg |-> args]>>,
              ret |-> InPlace(Return, 0, Apply(fn, args))]
        ELSE [calls |-> <<>>,
              ret |-> InPlace(Return, 1,
                        ConvertTo(error_type_t(Return), pick_first_error(SuccessTuple, args)))]

\* zip_match_impl<SuccessTuple, Return>(f, index_sequence, rs...): std::visit
\* hands the visitor the active alternative of every rs[i]; the calls of f
\* made and the Result returned.
zip_match_impl(SuccessTuple, Return, fn, zs) ==
    LET args == [i \in 1..Len(zs) |-> get(zs[i])]
        allSuccess == \A i \in 1..Len(zs) : is_same(args[i].ty, SuccessTuple[i])
    IN  IF allSuccess
        THEN IF fn.void
             THEN [calls |-> <<[h |-> fn.name, arg |-> args]>>,
                   ret |-> InPlace(Return, 0, LeafVal(MonostateT, 0))]
             ELSE [calls |-> <<[h |-> fn.name, arg |-> args]>>,
                   ret |-> InPlace(Return, 0, Apply(fn, args))]
        ELSE [calls |-> <<>>,
              ret |-> InPlace(Return, 1,
                        ConvertTo(error_type_t(Return), pick_first_error(SuccessTuple, args)))]

\* The types zip_match names for the arguments' types Rs:
\*   using ErrorCommon = deduced_error_t<error_type_t<Rs>...>;
\*   using success_t = conditional_t<is_void_v<f_return_t>, std::monostate, f_return_t>;
\*   using Return = Result<success_t, ErrorCommon>;
ZipReturn(fn, types) ==
    LET ErrorCommon == deduced_error_t([i \in 1..Len(types) |-> error_type_t(types[i])])
        success_t == IF fn.void THEN MonostateT ELSE IntT
    IN  Result(success_t, ErrorCommon)

\* zip_match(f, rs...)
zip_match(fn, zs) ==
    LET SuccessTuple == [i \in 1..Len(zs) |-> success_type_t(zs[i].ty)]
        Return == ZipReturn(fn, [i \in 1..Len(zs) |-> zs[i].ty])
    IN  zip_match_impl(SuccessTuple, Return, fn, zs)

\* zip_match compiles for these argument types: in every instantiation of the
\* visitor the error picked initialises ErrorCommon.
ZipCompiles(types) ==
    LET es == [i \in 1..Len(types) |-> error_type_t(types[i])]
    IN  \A i \in 1..Len(types) :
            is_same(es[i], success_type_t(types[i])) \/ Constructible(deduced_error_t(es), es[i])

\* Result<int, std::string> of the tests, a second error type, and a Result
\* whose success and error type are the same.
ZipTypes == {Result(IntT, StringT), Result(IntT, FloatT), Result(IntT, IntT)}

InitZip ==
    /\ op = "none" /\ src = NoValue /\ r = NoValue /\ target = Void
    /\ lambdas = <<>> /\ flag = FALSE /\ out = NoValue /\ calls = <<>>
    /\ env = Void /\ pc = 0 /\ locals = <<>> /\ evals = <<>>
    /\ \E n \in 1..MaxZip : rs \in [1..n -> UNION {ValuesOf(T) : T \in ZipTypes}]
    /\ f \in ZipFunctions

\* The types of the arguments at hand.
ArgTypes == [i \in 1..Len(rs) |-> rs[i].ty]

\* auto result = zip_match(f, rs...); target is decltype(result).
ZipMatch ==
    /\ op = "none"
    /\ ZipCompiles(ArgTypes)
    /\ LET z == zip_match(f, rs)
       IN  calls' = z.calls /\ out' = z.ret
    /\ target' = ZipReturn(f, ArgTypes)
    /\ op' = "zip_match"
    /\ UNCHANGED <<src, r, lambdas, flag, rs, env, pc, locals, evals, f>>

\* The same call where the error picked does not initialise ErrorCommon: the
\* program is rejected, nothing is called and nothing is returned.
ZipRejected ==
    /\ op = "none"
    /\ ~ZipCompiles(ArgTypes)
    /\ target' = ZipReturn(f, ArgTypes)
    /\ op' = "zip_rejected"
    /\ UNCHANGED <<src, r, lambdas, flag, out, calls, rs, env, pc, locals, evals, f>>

NextZip == ZipMatch \/ ZipRejected

SpecZip == InitZip /\ [][NextZip]_vars

\* ==================================================== SpecSuccesses
\* for (auto x : range | successes | std::views::transform(g)) {...}
\* rs are the elements the range produces when it is read, evals[i] counts
\* how often element i was read by the filter, calls lists the elements the
\* transform was applied to, pc is the element the iterator of the filter
\* stands at (0 before begin(), Len(rs) + 1 at the end), locals are the values
\* the loop body was given.

\* The transform composed on top: [](int x) { return x * x; }, or none.
FurtherTransforms == {[name |-> "square", void |-> FALSE], [name |-> "none", void |-> FALSE]}

Further(fn, x) == IF fn.name = "square" THEN LeafVal(x.ty, x.v * x.v) ELSE x

\* A slip in successes: the filter is missing.
RECURSIVE successes_find(_, _)
successes_find_unfiltered(zs, from) == IF from > Len(zs) THEN Len(zs) + 1 ELSE from

\* std::views::filter([](const auto &res) { return is_ok(res); }): the search
\* of begin() and operator++ for the next element is_ok accepts, from `from` on.
successes_find(zs, from) ==
    IF from > Len(zs) THEN Len(zs) + 1
    ELSE IF is_ok(zs[from]) THEN from
    ELSE successes_find(zs, from + 1)

\* std::views::transform([](const auto &res) { return std::get<0>(res); })
successes_get(res) == get0(res)

InitSuccesses ==
    /\ op = "none" /\ src = NoValue /\ r = NoValue /\ target = Void
    /\ lambdas = <<>> /\ flag = FALSE /\ out = NoValue /\ calls = <<>>
    /\ env = Void /\ locals = <<>>
    /\ \E n \in 0..MaxLen : rs \in [1..n -> ValuesOf(Result(IntT, StringT))]
    /\ f \in FurtherTransforms
    /\ pc = 0
    /\ evals = [i \in 1..Len(rs) |-> 0]

\* The filter reads the elements from..to (to is the element found, or the
\* last one when none is found).
ReadByFilter(from, to) ==
    [i \in 1..Len(rs) |-> IF i >= from /\ i <= to THEN evals[i] + 1 ELSE evals[i]]

\* A slip in successes: the range is collected into a container before it
\* is filtered, every element is read at begin().
SuccessesBeginEager ==
    /\ op = "none"
    /\ pc' = successes_find(rs, 1)
    /\ evals' = ReadByFilter(1, Len(rs))
    /\ op' = IF pc' > Len(rs) THEN "end" ELSE "begin"
    /\ UNCHANGED <<src, r, target, lambdas, flag, out, calls, rs, env, locals, f>>

\* begin() of the view: the first element the filter accepts is searched.
SuccessesBegin ==
    /\ op = "none"
    /\ pc' = successes_find(rs, 1)
    /\ evals' = ReadByFilter(1, pc')
    /\ op' = IF pc' > Len(rs) THEN "end" ELSE "begin"
    /\ UNCHANGED <<src, r, target, lambdas, flag, out, calls, rs, env, locals, f>>

\* *it, and the loop body with the value: the transforms are applied to the
\* element the filter stands at.
SuccessesDeref ==
    /\ op \in {"begin", "next"}
    /\ out' = Further(f, successes_get(rs[pc]))
    /\ locals' = Append(locals, out')
    /\ calls' = Append(calls, pc)
    /\ op' = "deref"
    /\ UNCHANGED <<src, r, target, lambdas, flag, rs, env, pc, evals, f>>

\* ++it: the next element the filter accepts is searched.
SuccessesIncrement ==
    /\ op = "deref"
    /\ pc' = successes_find(rs, pc + 1)
    /\ evals' = ReadByFilter(pc + 1, pc')
    /\ op' = IF pc' > Len(rs) THEN "end" ELSE "next"
    /\ UNCHANGED <<src, r, target, lambdas, flag, out, calls, rs, env, locals, f>>

NextSuccesses == SuccessesBegin \/ SuccessesDeref \/ SuccessesIncrement

SpecSuccesses == InitSuccesses /\ [][NextSuccesses]_vars

\* ===================================================== SpecLifetime
\* One Result r, built once, to which every operation of the library is
\* applied, in any order and any number of times.

\* Result<T', E'> fn(Result<T, E> &r) { T x = expect(r); ... }: expr_ is bound
\* to r itself, which std::get<I>(std::move(expr_)) moves the alternative
\* out of. target is the return type of fn, out what fn returns at the expect
\* or, when it goes on, the value of x.
ExpectOf(RT) ==
    /\ IsResult(r) /\ IsErrCompiles(r.ty) /\ ExpectCompiles(r.ty, RT)
    /\ flag' = is_err(r)
    /\ out' = IF is_err(r) THEN VariantFrom(RT, get1(r)) ELSE get0(r)
    /\ r' \in MovedFrom(r)
    /\ target' = RT
    /\ calls' = <<>> /\ lambdas' = <<>>
    /\ UNCHANGED src
    /\ Fresh("expect")

\* auto z = zip_match(fn, r, r);  (const Rs &...rs)
ZipOf(fn) ==
    /\ IsResult(r) /\ success_type_t(r.ty) = IntT
    /\ ZipCompiles(<<r.ty, r.ty>>)
    /\ LET z == zip_match(fn, <<r, r>>)
       IN  calls' = z.calls /\ out' = z.ret
    /\ target' = ZipReturn(fn, <<r.ty, r.ty>>)
    /\ lambdas' = <<fn>> /\ flag' = FALSE
    /\ UNCHANGED <<r, src>>
    /\ Fresh("zip_match")

\* for (auto x : std::span(&r, 1) | successes) {...}: the view over the range
\* whose one element is r, iterated to its end (const auto &res).
SuccessesOf ==
    /\ IsResult(r) /\ IsErrCompiles(r.ty)
    /\ LET at == successes_find(<<r>>, 1)
       IN  /\ out' = IF at = 1 THEN successes_get(r) ELSE NoValue
           /\ calls' = IF at = 1 THEN <<1>> ELSE <<>>
    /\ flag' = FALSE /\ lambdas' = <<>> /\ target' = Void
    /\ UNCHANGED <<r, src>>
    /\ Fresh("successes")

NextLifetime ==
    \/ \E RT \in CoreResultTypes : \E x \in Sources(RT) : Construct(RT, x)
    \/ \E i \in 0..1 : \E x \in ValuesOf(IntT) : ConstructInPlace(SameTypeResult, i, x)
    \/ \E constant \in BOOLEAN : IsErr(constant)
    \/ \E constant \in BOOLEAN : IsOk(constant)
    \/ \E ls \in HandlerLists(r.ty) : Match(ls)
    \/ \E d \in (IF IsResult(r) THEN ValuesOf(success_type_t(r.ty)) ELSE {}) : DefaultExpect(d)
    \/ \E fn \in MapFunctions : MapError(fn)
    \/ \E RT \in (IF IsResult(r) THEN Enclosing(r.ty) ELSE {}) : ExpectOf(RT)
    \/ \E fn \in ZipFunctions : ZipOf(fn)
    \/ SuccessesOf

SpecLifetime == Init /\ [][NextLifetime]_vars

\* ==================================================== SpecException
\* expect_e, dynamic_match and match_e. An evaluation either returns a value
\* or throws one: [ret, thrown], the other being NoValue.
\* target is the Result type of the expression, r the Result the fallible
\* operation inside it returns, locals the exception that escaped the
\* expression (if one did), src the exception that leaves the operation
\* applied last, out the value it returns, calls the handler calls it made.

\* FlattenErrorVariant_t<std::variant<T, Ts...>>: std::variant<T, Ts..., Us...>
\* when the (one) Ts is an Error<Us...>, the variant itself otherwise.
FlattenErrorVariant(RT) ==
    IF is_error_v(error_type_t(RT)) THEN VariantT(RT.ts \o error_type_t(RT).ts) ELSE RT

\* A slip in expect_e: the error is handed to a handler that does nothing.
expect_e_throws_nothing(v) ==
    [ret |-> get0(v), thrown |-> NoValue]

\* expect_e(v):
\*   if (is_err(v)) match(std::get<1>(v), [](auto &&err) -> void { throw err; });
\*   return std::get<0>(v);
expect_e(v) ==
    IF is_err(v)
    THEN [ret |-> NoValue, thrown |-> match(get1(v), <<CatchAll(1)>>).calls[1].arg]
    ELSE [ret |-> get0(v), thrown |-> NoValue]

\* A slip in handle_exception_index: the closing throw; is missing, an
\* exception no alternative catches is dropped.
RECURSIVE handle_exception_index(_, _, _, _)
handle_exception_index_drops(ErrorType, I, eptr, ls) ==
    IF eptr.ty = ErrorType.ts[I]
    THEN LET m == flat_visit(eptr, ls) IN [calls |-> m.calls, ret |-> m.ret, thrown |-> NoValue]
    ELSE IF I + 1 <= Len(ErrorType.ts) THEN handle_exception_index(ErrorType, I + 1, eptr, ls)
    ELSE [calls |-> <<>>, ret |-> NoValue, thrown |-> NoValue]

\* handle_exception_index<ErrorType, I>(eptr, lambdas...), I counted from 1:
\*   try { rethrow_exception(eptr); }
\*   catch (const CurrentType &err) { return flat_visit(err, overloaded{...}); }
\*   catch (...) {}
\*   then the next I, or  throw;  after the last.
handle_exception_index(ErrorType, I, eptr, ls) ==
    IF eptr.ty = ErrorType.ts[I]
    THEN LET m == flat_visit(eptr, ls) IN [calls |-> m.calls, ret |-> m.ret, thrown |-> NoValue]
    ELSE IF I + 1 <= Len(ErrorType.ts) THEN handle_exception_index(ErrorType, I + 1, eptr, ls)
    ELSE [calls |-> <<>>, ret |-> NoValue, thrown |-> eptr]

\* dynamic_match(expr, lambdas...), expr() of type ResultType evaluating to e:
\*   try { return match(expr(), lambdas...); }
\*   catch (...) { return handle_exception_index<FlattenErrorVariant_t<ResultType>, 0>(...); }
dynamic_match(ResultType, e, ls) ==
    IF e.thrown = NoValue
    THEN LET m == match(e.ret, ls) IN [calls |-> m.calls, ret |-> m.ret, thrown |-> NoValue]
    ELSE handle_exception_index(FlattenErrorVariant(ResultType), 1, e.thrown, ls)

\* Result<T, E> fn() { T x = expect(op()); return x; }  where op() returns v.
propagate(RT, v) ==
    IF is_err(v) THEN VariantFrom(RT, get1(v)) ELSE VariantFrom(RT, get0(v))

\* Result<T, E> fn_e() { T x = expect_e(op()); return x; }
propagate_e(RT, v) ==
    LET x == expect_e(v)
    IN  IF x.thrown # NoValue THEN [ret |-> NoValue, thrown |-> x.thrown]
        ELSE [ret |-> VariantFrom(RT, x.ret), thrown |-> NoValue]

\* The Results of the exception-based operations: a plain error, an Error of
\* plain members, an Error with a std::variant member.
ExceptionTypes ==
    {Result(IntT, StringT), Result(DoubleT, ErrorT(<<IntT, FloatT, StringT>>)),
     Result(DoubleT, ErrTower(1))}

\* What an expression may throw: a value of the success type, of the error
\* type, of a type within the error type, or of a type foreign to the Result.
RECURSIVE TypesWithin(_)
TypesWithin(T) ==
    IF T.k = "leaf" THEN {T}
    ELSE {T} \cup UNION {TypesWithin(T.ts[i]) : i \in 1..Len(T.ts)}

Throwable(RT) == UNION {ValuesOf(T) : T \in TypesWithin(RT) \ {RT}} \cup ValuesOf(NullErrorT)

InitException ==
    /\ op = "none" /\ src = NoValue /\ flag = FALSE /\ out = NoValue /\ calls = <<>>
    /\ IdleExpect
    /\ target \in ExceptionTypes
    /\ r \in ValuesOf(target)
    /\ lambdas \in {ls \in HandlerLists(target) : \A i \in 1..Len(ls) : ~ls[i].generic}

\* T x = expect_e(r);
ExpectE ==
    /\ op = "none"
    /\ LET x == expect_e(r)
       IN  out' = x.ret /\ src' = x.thrown
    /\ op' = "expect_e"
    /\ UNCHANGED <<r, target, lambdas, flag, calls, rs, env, pc, locals, evals, f>>

\* dynamic_match([&]() -> Result<T, E> { throw x; }, lambdas...)
DynamicMatchThrow(x) ==
    /\ op = "none"
    /\ LET m == dynamic_match(target, [ret |-> NoValue, thrown |-> x], lambdas)
       IN  calls' = m.calls /\ out' = m.ret /\ src' = m.thrown
    /\ locals' = <<x>>
    /\ op' = "dynamic_match"
    /\ UNCHANGED <<r, target, lambdas, flag, rs, env, pc, evals, f>>

\* match_e(fn_e(), lambdas...), fn_e propagating r with expect_e.
MatchE ==
    /\ op = "none"
    /\ LET e == propagate_e(target, r)
           m == dynamic_match(target, e, lambdas)
       IN  /\ calls' = m.calls /\ out' = m.ret /\ src' = m.thrown
           /\ locals' = IF e.thrown = NoValue THEN <<>> ELSE <<e.thrown>>
    /\ op' = "match_e"
    /\ UNCHANGED <<r, target, lambdas, flag, rs, env, pc, evals, f>>

NextException ==
    \/ ExpectE
    \/ \E x \in Throwable(target) : DynamicMatchThrow(x)
    \/ MatchE

SpecException == InitException /\ [][NextException]_vars

\* ========================================================== claims
\* The number of Error / std::variant levels around Innermost(v).
RECURSIVE Depth(_)
Depth(v) == IF v.ty.k = "leaf" \/ v.held = <<>> THEN 0 ELSE 1 + Depth(v.held[1])

Range(s) == {s[i] : i \in 1..Len(s)}

\* r is a Result that was initialised from the value src.
BuiltFromValue == IsResult(r) /\ op \in {"construct", "is_ok", "is_err", "match"} /\ IsErrCompiles(r.ty)

\* C1: a Result constructed from a T value has index 0, is_ok is true, is_err
\* is false and std::get<0> is that value; constructed from an E value it has
\* index 1, is_err is true, is_ok is false and std::get<1> is that value; of
\* every Result exactly one of is_ok / is_err is true.
C1_ConstructedResultReportsItsValue ==
    /\ (BuiltFromValue /\ src.ty = success_type_t(r.ty)) =>
          /\ index(r) = 0 /\ is_ok(r) /\ ~is_err(r) /\ get0(r) = src
          /\ op = "is_ok" => flag
          /\ op = "is_err" => ~flag
    /\ (BuiltFromValue /\ src.ty = error_type_t(r.ty)) =>
          /\ index(r) = 1 /\ is_err(r) /\ ~is_ok(r) /\ get1(r) = src
          /\ op = "is_ok" => ~flag
          /\ op = "is_err" => flag
    /\ (IsResult(r) /\ IsErrCompiles(r.ty)) =>
          /\ is_ok(r) # is_err(r)
          /\ is_ok_constant(r) # is_err_constant(r)
          /\ is_err(r) = is_err_constant(r)

C1_Witness ==
    /\ op = "is_err" /\ flag
    /\ r.ty = Result(IntT, StringT) /\ src.ty = StringT /\ get1(r) = src

\* C2: match on a Result calls exactly one handler, once: the one that accepts
\* the type of the active alternative; match returns what that handler
\* returns, and no other handler runs.
C2_MatchCallsTheOneHandler ==
    (op = "match" /\ IsResult(r)) =>
        /\ Len(calls) = 1
        /\ calls[1].h \in 1..Len(lambdas)
        /\ LET h == lambdas[calls[1].h]
               arg == calls[1].arg
           IN  /\ arg.ty = Innermost(r).ty
               /\ get(r).ty.k = "leaf" => arg = get(r)
               /\ IF h.generic
                  THEN \A i \in 1..Len(lambdas) : lambdas[i].generic \/ lambdas[i].param # arg.ty
                  ELSE h.param = arg.ty
               /\ out = Invoke(h, arg)

C2_Witness ==
    /\ op = "match" /\ r.ty = Result(IntT, StringT) /\ index(r) = 1
    /\ Len(lambdas) > 2 /\ Len(calls) = 1
    /\ lambdas[calls[1].h].param = StringT /\ out = Invoke(lambdas[calls[1].h], get(r))

\* C3: on a value nested through Result, Error and std::variant, match takes
\* off one level at a time along the active path and calls the handler with
\* the innermost leaf only, never with an Error or variant in between.
C3_MatchReachesTheLeaf ==
    op = "match" =>
        /\ calls # <<>>
        /\ \A i \in 1..Len(calls) :
              /\ calls[i].arg.ty.k = "leaf"
              /\ calls[i].arg = Innermost(r)

C3_Witness ==
    /\ op = "match" /\ IsResult(r) /\ index(r) = 1
    /\ Depth(r) >= 2 * MaxDepth + 1
    /\ calls = <<[h |-> calls[1].h, arg |-> Innermost(r)]>>

Converted == op \in {"convert_copy", "convert_move"}

\* C8: converting an Error<Us...> into an Error<Ts...>, {Us} a subset of {Ts},
\* gives an Error whose active alternative has the type and the value of the
\* source's active alternative, by copy and by move.
C8_WideningKeepsTheAlternative ==
    Converted =>
        /\ out.ty = target
        /\ get(out).ty = VariantT(target.ts)
        /\ index(get(out)) \in 0..(Len(target.ts) - 1)
        /\ target.ts[index(get(out)) + 1] = get(get(src)).ty
        /\ get(get(out)) = get(get(src))

C8_Witness ==
    /\ op = "convert_move"
    /\ src.ty = ErrorT(<<FloatT, IntT>>) /\ target = ErrorT(<<IntT, FloatT, StringT>>)
    /\ index(get(src)) = 0 /\ index(get(out)) = 1
    /\ get(get(out)) = LeafVal(FloatT, MaxVal)

\* C9: the Error-to-Error conversion exists exactly when every alternative
\* type of the source is one of the target; a narrowing conversion is rejected
\* when the program is type-checked, and a conversion that runs never fails
\* nor loses the error.
C9_NarrowingIsRejectedStatically ==
    /\ is_error_v(r.ty) =>
          \A ts \in ErrorLists :
              convert_enabled(r.ty.ts, ts) <=> Range(r.ty.ts) \subseteq Range(ts)
    /\ op = "convert_rejected" =>
          /\ ~(Range(src.ty.ts) \subseteq Range(target.ts))
          /\ out = NoValue
    /\ Converted =>
          /\ Range(src.ty.ts) \subseteq Range(target.ts)
          /\ index(get(out)) >= 0
          /\ Innermost(out) = Innermost(src)

C9_Witness ==
    /\ op = "convert_rejected"
    /\ src.ty = ErrorT(<<IntT, FloatT, StringT>>) /\ target = ErrorT(<<IntT, FloatT>>)
    /\ Innermost(src).ty = IntT

\* The enclosing function has just returned from inside an expect.
EarlyReturn == op = "return" /\ pc \in 1..Len(rs)

\* C4: expect applied to a failure makes the enclosing function return at
\* once a Result that is a failure (index 1) and whose error is the error
\* value the operand held.
C4_ExpectReturnsTheFailure ==
    EarlyReturn =>
        /\ index(out) = 1
        /\ Innermost(out) = Innermost(get1(src))
        /\ error_type_t(env) = error_type_t(src.ty) => get1(out) = get1(src)

\* C5: after an expect applied to a failure no later statement of the
\* enclosing function runs; after one applied to a success the next statement
\* is at hand; every evaluation of expect takes one of the two ways.
C5_ExpectStopsOrContinues ==
    [][/\ op # "return"
       /\ pc \in 1..Len(rs) =>
             IF is_err(rs[pc])
             THEN /\ op' = "return" /\ pc' = pc /\ locals' = locals
                  /\ \A j \in (pc + 1)..Len(rs) : evals'[j] = 0
             ELSE /\ op' # "return" /\ pc' = pc + 1 /\ out' = NoValue
                  /\ Len(locals') = Len(locals) + 1]_vars

C5_Witness ==
    /\ EarlyReturn /\ pc < Len(rs)
    /\ is_err(src) /\ evals[pc] = 1 /\ evals[Len(rs)] = 0

\* C6: expect applied to a success holding x evaluates to x, and the
\* enclosing function does not return there.
C6_ExpectUnwrapsTheSuccess ==
    [][(op # "return" /\ pc \in 1..Len(rs) /\ is_ok(rs[pc])) =>
          /\ locals' = Append(locals, get0(rs[pc]))
          /\ locals'[Len(locals')].ty = success_type_t(rs[pc].ty)
          /\ op' = "expect" /\ out' = NoValue /\ pc' = pc + 1]_vars

C6_Witness ==
    /\ op = "expect" /\ pc = 2 /\ Len(rs) = 2
    /\ is_ok(src) /\ locals = <<get0(src)>> /\ out = NoValue

\* C7: when expect propagates a failure of type E, a plain type or an Error
\* over a subset, out of a function whose error type is an Error over a
\* superset, the function returns a failure whose innermost active
\* alternative has the type and the value of the propagated error.
C7_ExpectWidensTheFailure ==
    (/\ EarlyReturn
     /\ is_error_v(error_type_t(env))
     /\ LeafTypes(error_type_t(src.ty)) \subseteq Range(error_type_t(env).ts)) =>
        /\ is_err(out)
        /\ Innermost(get(out)) = Innermost(get1(src))

\* What the return statement of the macro does in every case: the error
\* reaches the returned Result unchanged, in the alternative the converting
\* constructor selects, which is the failure alternative unless the success
\* type of the enclosing function is the error's own type.
ExpectReturnsTheErrorValue ==
    EarlyReturn =>
        /\ Innermost(out) = Innermost(get1(src))
        /\ success_type_t(env) # error_type_t(src.ty) => index(out) = 1

\* C10: zip_match(f, r1..rn), every ri a success, returns a success whose
\* value is f applied to the unwrapped values of r1..rn in argument order.
C10_ZipOfSuccesses ==
    (/\ op = "zip_match"
     /\ \A i \in 1..Len(rs) : is_ok(rs[i])
     /\ ~f.void) =>
        /\ index(out) = 0
        /\ get0(out) = Apply(f, [i \in 1..Len(rs) |-> get0(rs[i])])
        /\ Len(calls) = 1

C10_Witness ==
    /\ op = "zip_match" /\ Len(rs) = MaxZip /\ f.name = "digits"
    /\ \A i \in 1..Len(rs) : is_ok(rs[i])
    /\ get0(rs[1]).v # get0(rs[Len(rs)]).v
    /\ out = InPlace(out.ty, 0, LeafVal(IntT, Digits([i \in 1..Len(rs) |-> get0(rs[i])])))

\* The position of the first failing argument of the zip_match (0: none).
FirstFailure == 
    IF \E i \in 1..Len(rs) : is_err(rs[i])
    THEN CHOOSE i \in 1..Len(rs) : is_err(rs[i]) /\ \A j \in 1..(i - 1) : is_ok(rs[j])
    ELSE 0

\* C11: zip_match(f, r1..rn) with at least one failing ri returns a failure
\* (index 1) whose error is the error value of the failing argument of the
\* smallest position, whatever the others hold; f is not called.
C11_ZipReturnsTheFirstFailure ==
    (op = "zip_match" /\ FirstFailure > 0) =>
        /\ index(out) = 1
        /\ Innermost(out) = get1(rs[FirstFailure])
        /\ calls = <<>>

\* What holds of the code in its place: the arguments are told apart by the
\* type of their active alternative, so the error returned is that of the
\* first argument whose active alternative is not of its success type.
ZipReturnsTheFirstOfAnotherType ==
    (op = "zip_match" /\ \E i \in 1..Len(rs) : get(rs[i]).ty # success_type_t(rs[i].ty)) =>
        LET i == CHOOSE i \in 1..Len(rs) :
                    /\ get(rs[i]).ty # success_type_t(rs[i].ty)
                    /\ \A j \in 1..(i - 1) : get(rs[j]).ty = success_type_t(rs[j].ty)
        IN  index(out) = 1 /\ Innermost(out) = get1(rs[i]) /\ calls = <<>>

\* C12: zip_match with a combining function that returns void and arguments
\* that are all successes calls it once and returns a success (index 0)
\* holding std::monostate.
C12_VoidZipReturnsMonostate ==
    (op = "zip_match" /\ f.void /\ FirstFailure = 0) =>
        /\ out.ty = Result(MonostateT, error_type_t(out.ty))
        /\ index(out) = 0
        /\ get0(out) = LeafVal(MonostateT, 0)
        /\ Len(calls) = 1

C12_Witness ==
    /\ op = "zip_match" /\ f.void /\ Len(rs) = MaxZip
    /\ \A i \in 1..Len(rs) : rs[i].ty = Result(IntT, StringT) /\ is_ok(rs[i])
    /\ out = InPlace(Result(MonostateT, StringT), 0, LeafVal(MonostateT, 0))

\* C19: the error type of the Result of zip_match is the arguments' error
\* type when they all have one error type, and otherwise a union with every
\* distinct error type of the arguments once, which the error of whichever
\* argument fails first can be stored in (the call is accepted).
C19_ZipErrorTypeCoversTheErrors ==
    op \in {"zip_match", "zip_rejected"} =>
        LET es == [i \in 1..Len(rs) |-> error_type_t(rs[i].ty)]
            E == error_type_t(target)
        IN  /\ IF \A i \in 1..Len(es) : es[i] = es[1]
               THEN E = es[1]
               ELSE /\ is_variant_v(E)
                    /\ Range(E.ts) = Range(es)
                    /\ \A i, j \in 1..Len(E.ts) : E.ts[i] = E.ts[j] => i = j
            /\ op = "zip_match"

\* What holds of the code in its place: the union lists the arguments' error
\* types one per argument, and the call is accepted exactly when no error
\* type that is not its argument's success type occurs twice in that list.
ZipErrorTypeListsEveryArgument ==
    op \in {"zip_match", "zip_rejected"} =>
        LET es == [i \in 1..Len(rs) |-> error_type_t(rs[i].ty)]
            E == error_type_t(target)
        IN  /\ IF \A i \in 1..Len(es) : es[i] = es[1] THEN E = es[1] ELSE E = VariantT(es)
            /\ (\A i \in 1..Len(es) : es[i] = es[1]) => op = "zip_match"
            /\ (\A i, j \in 1..Len(es) : es[i] = es[j] => i = j) => op = "zip_match"

\* C13: map_error(result, f) on a success does not call f and returns a
\* success that holds the value result holds.
C13_MapErrorPassesTheSuccess ==
    (op = "map_error" /\ is_ok(r)) =>
        /\ calls = <<>>
        /\ index(out) = 0
        /\ get0(out) = get0(r)

\* C14: map_error(result, f) on a failure holding e calls f once, with e, and
\* returns a failure (index 1) whose error is f(e).
C14_MapErrorMapsTheFailure ==
    (op = "map_error" /\ is_err(r)) =>
        /\ calls = <<[h |-> lambdas[1].id, arg |-> get1(r)]>>
        /\ index(out) = 1
        /\ get1(out) = ApplyMap(lambdas[1], get1(r))

\* What holds of the code in their place: on every Result whose two
\* alternatives are neither an Error nor a std::variant, where match hands
\* the handlers the alternative itself, map_error passes a success on
\* without calling f and maps a failure with one call of f.
MapErrorOfLeafAlternatives ==
    (/\ op = "map_error"
     /\ success_type_t(r.ty).k = "leaf" /\ error_type_t(r.ty).k = "leaf") =>
        IF is_ok(r)
        THEN calls = <<>> /\ index(out) = 0 /\ get0(out) = get0(r)
        ELSE /\ calls = <<[h |-> lambdas[1].id, arg |-> get1(r)]>>
             /\ index(out) = 1 /\ get1(out) = ApplyMap(lambdas[1], get1(r))

\* C15: default_expect(result, d) returns the success value of a success and
\* d of a failure; no callable is given the error.
C15_DefaultExpectReturnsValueOrDefault ==
    op = "default_expect" =>
        /\ is_ok(r) => out = get0(r)
        /\ is_err(r) => out = lambdas[1]
        /\ out.ty = success_type_t(r.ty)
        /\ calls = <<>>

C15_Witness ==
    /\ op = "default_expect" /\ is_err(r)
    /\ r.ty = Result(IntT, StringT)
    /\ out = lambdas[1] /\ out.v # get1(r).v

\* C20: a match with one flat list of per-leaf handlers and the match whose
\* catch-all handler applies match again to what it is given call the same
\* handler with the same leaf and return the same value, whichever
\* alternative is active.
C20_NestedMatchAgreesWithFlatMatch ==
    op = "nested_match" =>
        LET m == match(r, lambdas)
        IN  /\ out = m.ret
            /\ calls = m.calls
            /\ out # NoValue

C20_Witness ==
    /\ op = "nested_match" /\ is_err(r) /\ Depth(r) >= 3
    /\ Len(calls) = 1 /\ calls[1].h > 0
    /\ out = Invoke(lambdas[calls[1].h], Innermost(r))

\* The unwrapped values of the successes among the first n elements of zs, in
\* their order.
RECURSIVE SuccessValues(_, _)
SuccessValues(zs, n) ==
    IF n = 0 THEN <<>>
    ELSE SuccessValues(zs, n - 1) \o (IF index(zs[n]) = 0 THEN <<zs[n].held[1]>> ELSE <<>>)

\* C16: iterated to its end, successes yields the unwrapped values of exactly
\* the elements that are successes, in their order: no failure is yielded, no
\* success is left out or yielded twice; on the way the values yielded are
\* those of the successes passed so far.
C16_SuccessesYieldsTheSuccesses ==
    LET passed == IF op = "none" THEN 0
                  ELSE IF op \in {"begin", "next"} THEN pc - 1
                  ELSE IF op = "deref" THEN pc ELSE Len(rs)
        want == SuccessValues(rs, passed)
    IN  op \in {"none", "begin", "next", "deref", "end"} =>
            /\ Len(locals) = Len(want)
            /\ \A k \in 1..Len(want) : locals[k] = Further(f, want[k])
            /\ op = "end" => Len(locals) = Cardinality({i \in 1..Len(rs) : index(rs[i]) = 0})

C16_Witness ==
    /\ op = "end" /\ Len(rs) = MaxLen /\ f.name = "none"
    /\ is_ok(rs[1]) /\ is_err(rs[2]) /\ is_ok(rs[3]) /\ is_err(rs[4])
    /\ locals = <<get0(rs[1]), get0(rs[3])>> /\ locals[1] # locals[2]

\* C17: when successes (with a transform on top) has produced its k-th value
\* the range has been read up to the k-th success and no further, each
\* element once; the elements behind it have not been read at all.
C17_SuccessesReadsNoFurther ==
    op \in {"begin", "next", "deref"} =>
        /\ pc \in 1..Len(rs) /\ index(rs[pc]) = 0
        /\ Len(SuccessValues(rs, pc)) = IF op = "deref" THEN Len(locals) ELSE Len(locals) + 1
        /\ \A i \in 1..pc : evals[i] = 1
        /\ \A i \in (pc + 1)..Len(rs) : evals[i] = 0
        /\ Len(calls) = Len(locals)
        /\ \A k \in 1..Len(calls) : calls[k] <= pc /\ index(rs[calls[k]]) = 0

C17_Witness ==
    /\ op = "deref" /\ Len(locals) = 1 /\ f.name = "square"
    /\ Len(rs) = MaxLen /\ pc = 2 /\ is_ok(rs[MaxLen])
    /\ evals[1] = 1 /\ evals[2] = 1 /\ evals[MaxLen] = 0
    /\ locals = <<LeafVal(IntT, get0(rs[2]).v * get0(rs[2]).v)>>

\* C18: once a Result is built, is_ok, is_err, match, expect, default_expect,
\* map_error, zip_match and successes leave its type and its active index as
\* they are, and it holds exactly one alternative, the success or the
\* failure, in every state.
C18_ActiveAlternativeNeverChanges ==
    [][/\ IsResult(r) =>
            /\ r'.ty = r.ty
            /\ index(r') = index(r)
       /\ IsResult(r') =>
            /\ index(r') \in {0, 1}
            /\ Len(r'.held) = 1
            /\ r'.held[1].ty = r'.ty.ts[index(r') + 1]]_vars

C18_Witness ==
    /\ op = "expect" /\ flag
    /\ r.ty = Result(IntT, StringT) /\ index(r) = 1
    /\ r \in MovedFrom(VariantFrom(r.ty, src)) /\ r # VariantFrom(r.ty, src)
    /\ index(out) = 1

FirstFailing ==
    IF \E i \in 1..Len(rs) : index(rs[i]) = 1
    THEN CHOOSE i \in 1..Len(rs) : index(rs[i]) = 1 /\ \A j \in 1..(i - 1) : index(rs[j]) = 0
    ELSE 0

\* C26: a function that applies expect to several operations in turn returns
\* the failure of the first of them that fails, having evaluated none of
\* the later ones, and reaches its closing return statement only when none
\* fails.
C26_FirstFailingOperationIsReturned ==
    op = "return" =>
        IF FirstFailing > 0
        THEN /\ pc = FirstFailing
             /\ is_err(out)
             /\ Innermost(get1(out)) = Innermost(get1(src))
             /\ \A j \in (pc + 1)..Len(rs) : evals[j] = 0
        ELSE /\ pc = Len(rs) + 1
             /\ is_ok(out)
             /\ \A j \in 1..Len(rs) : evals[j] = 1

\* What holds of the code in its place: the function stops at the first
\* operation that fails and returns a Result that carries its error, as
\* the alternative the return statement of the macro selects.
ExpectStopsAtTheFirstFailure ==
    op = "return" =>
        IF FirstFailing > 0
        THEN /\ pc = FirstFailing
             /\ Innermost(out) = Innermost(get1(src))
             /\ \A j \in (pc + 1)..Len(rs) : evals[j] = 0
        ELSE pc = Len(rs) + 1 /\ is_ok(out)

\* C30: one evaluation of expect(expr) evaluates expr once, whether it goes
\* on with the success value or returns the failure.
C30_ExpectEvaluatesItsOperandOnce ==
    [][(op # "return" /\ pc \in 1..Len(rs)) =>
          /\ evals[pc] = 0
          /\ evals' = [evals EXCEPT ![pc] = 1]]_vars

C30_Witness ==
    /\ EarlyReturn /\ pc = MaxArgs
    /\ evals = [i \in 1..MaxArgs |-> 1]
    /\ Len(locals) = MaxArgs - 1

\* C22: match, map_error, expect and zip_match never make a success of a
\* failure: match hands the error to a handler, map_error and zip_match
\* return a failure, expect makes the enclosing function return a failure.
C22_NoFailureBecomesASuccess ==
    (IsResult(r) /\ index(r) = 1) =>
        /\ op = "match" => Len(calls) = 1 /\ calls[1].arg = Innermost(get1(r))
        /\ op = "map_error" => index(out) = 1
        /\ op = "expect" => index(out) = 1
        /\ op = "zip_match" => index(out) = 1

\* What holds of the code in its place: match always hands the error to a
\* handler, and the three others return a failure when the Result's success
\* type is int and its error type std::string (expect: out of a function
\* whose success type is not std::string).
FailureOfPlainResultIsKept ==
    (IsResult(r) /\ index(r) = 1) =>
        /\ op = "match" => Len(calls) = 1 /\ calls[1].arg = Innermost(get1(r))
        /\ r.ty = Result(IntT, StringT) =>
              /\ op \in {"map_error", "zip_match"} => index(out) = 1
              /\ (op = "expect" /\ success_type_t(target) # StringT) => index(out) = 1

\* C27: zip_match takes an argument for failed exactly when its active index
\* is 1, whatever its success and error types are, also when they are one
\* type: it returns a failure exactly when some argument has index 1.
C27_ZipClassifiesByIndex ==
    op = "zip_match" =>
        (index(out) = 1 <=> \E i \in 1..Len(rs) : index(rs[i]) = 1)

\* C28: zip_match calls the combining function once when every argument is a
\* success and not at all when some argument is a failure.
C28_ZipCallsTheFunctionOnceOrNever ==
    op = "zip_match" =>
        IF \A i \in 1..Len(rs) : index(rs[i]) = 0
        THEN Len(calls) = 1 /\ calls[1].arg = [i \in 1..Len(rs) |-> get0(rs[i])]
        ELSE calls = <<>>

\* What holds of the code in their place: the arguments are classified by
\* the type of the active alternative; f is called once, and a success is
\* returned, exactly when every active alternative has the success type of
\* its argument.
ZipClassifiesByType ==
    op = "zip_match" =>
        LET allSuccess == \A i \in 1..Len(rs) : get(rs[i]).ty = success_type_t(rs[i].ty)
        IN  /\ index(out) = 0 <=> allSuccess
            /\ Len(calls) = (IF allSuccess THEN 1 ELSE 0)

\* C23: expect_e(v) returns the success value and throws nothing when v is
\* a success; when v is a failure it throws the error v holds and returns
\* nothing.
C23_ExpectEReturnsOrThrows ==
    op = "expect_e" =>
        IF index(r) = 0
        THEN out = r.held[1] /\ src = NoValue
        ELSE src = Innermost(r.held[1]) /\ src # NoValue /\ out = NoValue

C23_Witness ==
    /\ op = "expect_e" /\ index(r) = 1 /\ Depth(r) >= 3
    /\ src = Innermost(r) /\ src.ty = FloatT /\ out = NoValue

\* The error alternative of a Result type and the members of that Error.
ErrorAlternatives(RT) ==
    {error_type_t(RT)} \cup
    (IF error_type_t(RT).k = "Error" THEN Range(error_type_t(RT).ts) ELSE {})

\* An exception escaped the expression given to dynamic_match / match_e.
Escaped == op \in {"dynamic_match", "match_e"} /\ locals # <<>>

\* C24: an exception that escapes the expression of dynamic_match / match_e
\* is either handed to the handler of its type, whose value the call
\* returns, or thrown on to the caller as it is; the first when its type is
\* an error alternative of the Result, the second when it is no alternative
\* at all. It never disappears.
C24_ExceptionIsHandledOrRethrown ==
    Escaped =>
        LET x == locals[1]
        IN  /\ \/ /\ src = NoValue
                  /\ Len(calls) = 1 /\ calls[1].h \in 1..Len(lambdas)
                  /\ calls[1].arg = Innermost(x)
                  /\ lambdas[calls[1].h].param = Innermost(x).ty
                  /\ out = Invoke(lambdas[calls[1].h], Innermost(x))
               \/ /\ src = x /\ calls = <<>> /\ out = NoValue
            /\ x.ty \in ErrorAlternatives(target) => src = NoValue
            /\ x.ty \notin ErrorAlternatives(target) \cup {success_type_t(target)} => src = x

C24_Witness ==
    /\ op = "dynamic_match" /\ locals # <<>> /\ locals[1].ty = NullErrorT
    /\ src = locals[1] /\ calls = <<>>

\* C25: dynamic_match tries a caught exception against the error types of
\* the Result only: a thrown value of the success type goes to no handler
\* and is thrown on.
C25_SuccessTypeIsNotCaught ==
    (/\ op = "dynamic_match" /\ locals # <<>>
     /\ locals[1].ty = success_type_t(target)
     /\ success_type_t(target) \notin ErrorAlternatives(target)) =>
        calls = <<>> /\ src = locals[1]

\* C29: propagating with expect_e and consuming with match_e calls the same
\* handler with the same value and returns the same as propagating with
\* expect and consuming with match, whichever alternative is active and
\* however deep the Errors of the error type are nested.
C29_ExceptionPathAgreesWithExpectPath ==
    op = "match_e" =>
        LET m == match(propagate(target, r), lambdas)
        IN  src = NoValue /\ calls = m.calls /\ out = m.ret

\* What holds of the code in its place: the two agree when the error that
\* is thrown is the error alternative itself or a member of that Error.
ExceptionPathAgreesOneLevelDeep ==
    (op = "match_e" /\ (index(r) = 0 \/ Depth(r) <= 3)) =>
        LET m == match(propagate(target, r), lambdas)
        IN  src = NoValue /\ calls = m.calls /\ out = m.ret

====
